---- MODULE Spec2Model ----
(***************************************************************************)
(* Model of the terminal presentation tool: the slide parser               *)
(* (src/src/parser.ts: parsePresentation, parseSlide, parseLine), the      *)
(* renderer's link state (src/src/renderer.ts) and the key handler and     *)
(* tmux dispatch of src/src/presentation.ts.                               *)
(*                                                                         *)
(* A JavaScript string is modelled as a sequence of one-character strings, *)
(* so that split, trim, startsWith, substring and the two regular          *)
(* expressions are computed character by character as the code does.       *)
(* String positions in the model are 1-based; the code's are 0-based.      *)
(***************************************************************************)
EXTENDS Integers, Sequences, FiniteSets, TLC

VARIABLES markdown, slides, slideContent, slide, content, elements, pc

\* the presentation: the main function's position, the renderer's fields, the
\* renderSlide calls in progress, the executeTmuxLink calls in progress, and
\* the last step taken
VARIABLES app, currentSlide, links, selectedLinkIndex, renders, tmuxTasks, event

\* the title of a slide as drawn, a call of Font.render, the font adjuster
\* and the persistent shell of the demos
VARIABLES titleBox, rendering, adjuster, shell

parserVars == <<markdown, slides, slideContent, slide, content, elements, pc>>

appVars ==
  <<app, currentSlide, links, selectedLinkIndex, renders, tmuxTasks, event>>

toolVars == <<titleBox, rendering, adjuster, shell>>

vars == <<parserVars, appVars, toolVars>>

\* no document is being parsed
NoParser ==
  /\ markdown = <<>> /\ slides = <<>>
  /\ slideContent = <<>> /\ slide = [type |-> "null"]
  /\ content = <<>> /\ elements = <<>>
  /\ pc = "none"

\* nothing else runs
NoTitle == titleBox = [state |-> "none"]
NoRendering == rendering = [state |-> "none"]
NoAdjuster == adjuster = [state |-> "none"]
NoShell == shell = [state |-> "none"]
NoTools == NoTitle /\ NoRendering /\ NoAdjuster /\ NoShell

\* the presentation is not running
NoApp ==
  /\ app = "none"
  /\ currentSlide = 0
  /\ links = <<>>
  /\ selectedLinkIndex = 0
  /\ renders = <<>>
  /\ tmuxTasks = <<>>
  /\ event = [kind |-> "none"]

(***************************************************************************)
(* Bounds of the model.                                                    *)
(***************************************************************************)
MaxDocLines == 5
MaxBlockLines == 4
MaxTokens == 4

(***************************************************************************)
(* String primitives of the JavaScript runtime used by the parser.         *)
(***************************************************************************)
NL == "\n"

\* the null / undefined value of `Slide | null` and of a failed regex match
Null == [type |-> "null"]

\* the white space String.prototype.trim removes (within the model's alphabet)
IsSpace(c) == c \in {" ", NL, "\t"}

RECURSIVE trimStart(_)
trimStart(s) == IF s # <<>> /\ IsSpace(Head(s)) THEN trimStart(Tail(s)) ELSE s

RECURSIVE trimEnd(_)
trimEnd(s) ==
  IF s # <<>> /\ IsSpace(s[Len(s)]) THEN trimEnd(SubSeq(s, 1, Len(s) - 1)) ELSE s

trim(s) == trimEnd(trimStart(s))

startsWith(s, prefix) ==
  Len(s) >= Len(prefix) /\ SubSeq(s, 1, Len(prefix)) = prefix

\* s.substring(start): the characters from 0-based index start to the end
substring(s, start) == SubSeq(s, start + 1, Len(s))

\* 1-based position of the first occurrence of sep in s, 0 when there is none
indexOf(s, sep) ==
  LET hits == {i \in 1..(Len(s) - Len(sep) + 1) : SubSeq(s, i, i + Len(sep) - 1) = sep}
  IN IF hits = {} THEN 0 ELSE CHOOSE i \in hits : \A j \in hits : i <= j

\* 1-based position of the first character c at or after position from, else 0
firstIndex(s, c, from) ==
  LET hits == {i \in from..Len(s) : s[i] = c}
  IN IF hits = {} THEN 0 ELSE CHOOSE i \in hits : \A j \in hits : i <= j

\* s.split(sep) for a non-empty separator without capture groups
RECURSIVE split(_, _)
split(s, sep) ==
  LET i == indexOf(s, sep)
  IN IF i = 0 THEN <<s>>
     ELSE <<SubSeq(s, 1, i - 1)>> \o split(SubSeq(s, i + Len(sep), Len(s)), sep)

(***************************************************************************)
(* parseLine: the inline-span scanner.                                     *)
(*   regex = /\[([^\]]+)\]\(([^)]+)\)|\*\*([^*]+)\*\*/g                    *)
(***************************************************************************)

\* first alternative at position p: "[" [^\]]+ "]" "(" [^)]+ ")".  A negated
\* class followed by the excluded character can only end at its first
\* occurrence, so the greedy match has no other way to succeed.
linkAt(s, p) ==
  IF p > Len(s) \/ s[p] # "[" THEN Null
  ELSE LET q == firstIndex(s, "]", p + 1)
       IN IF q < p + 2 \/ q + 1 > Len(s) \/ s[q + 1] # "(" THEN Null
          ELSE LET r == firstIndex(s, ")", q + 2)
               IN IF r < q + 3 THEN Null
                  ELSE [type |-> "link", index |-> p, last |-> r,
                        text |-> SubSeq(s, p + 1, q - 1),
                        url |-> SubSeq(s, q + 2, r - 1)]

\* second alternative at position p: "**" [^*]+ "**"
boldAt(s, p) ==
  IF p + 1 > Len(s) \/ s[p] # "*" \/ s[p + 1] # "*" THEN Null
  ELSE LET t == firstIndex(s, "*", p + 2)
       IN IF t < p + 3 \/ t + 1 > Len(s) \/ s[t + 1] # "*" THEN Null
          ELSE [type |-> "bold", index |-> p, last |-> t + 1,
                text |-> SubSeq(s, p + 2, t - 1)]

matchAt(s, p) == IF linkAt(s, p) # Null THEN linkAt(s, p) ELSE boldAt(s, p)

\* regex.exec(content) with regex.lastIndex = lastIndex (0-based): the leftmost
\* match starting at or after lastIndex, Null when there is none
exec(s, lastIndex) ==
  LET hits == {p \in (lastIndex + 1)..Len(s) : matchAt(s, p) # Null}
  IN IF hits = {} THEN Null
     ELSE matchAt(s, CHOOSE p \in hits : \A q \in hits : p <= q)

Text(c) == [type |-> "text", content |-> c]
Bold(c) == [type |-> "text", content |-> c, bold |-> TRUE]
Link(t, u) == [type |-> "link", text |-> t, url |-> u]

\* a scanner that takes the text before a match from the start of the line
textBefore_fromStart(s, lastIndex, m) ==
  IF m.index - 1 > lastIndex THEN <<Text(SubSeq(s, 1, m.index - 1))>> ELSE <<>>

\* the text before a match, pushed only when match.index > lastIndex
textBefore(s, lastIndex, m) ==
  IF m.index - 1 > lastIndex
    THEN <<Text(SubSeq(s, lastIndex + 1, m.index - 1))>>
    ELSE <<>>

\* the element pushed for a match
matchElement(m) ==
  IF m.type = "link" THEN Link(m.text, m.url) ELSE Bold(m.text)

\* a scanner that drops the text after the last match
remainingText_dropped(s, lastIndex) == <<>>

\* the remaining text after the last match
remainingText(s, lastIndex) ==
  IF lastIndex < Len(s) THEN <<Text(SubSeq(s, lastIndex + 1, Len(s)))>> ELSE <<>>

\* the while loop of parseLine followed by "Add remaining text"
RECURSIVE scanLine(_, _, _)
scanLine(s, lastIndex, acc) ==
  LET m == exec(s, lastIndex)
  IN IF m = Null THEN acc \o remainingText(s, lastIndex)
     ELSE scanLine(s, m.last, acc \o textBefore(s, lastIndex, m) \o <<matchElement(m)>>)

\* a scanner without the fallback for a line that produced no element
noElements_none(s) == <<>>

\* "If no elements, just return the content as text"
noElements(s) == <<Text(s)>>

parseLine(s) ==
  LET found == scanLine(s, 0, <<>>)
  IN IF Len(found) = 0 THEN noElements(s) ELSE found

(***************************************************************************)
(* parseSlide: the per-block line scanner.  Its loop state is the pair     *)
(* currentSlide, currentBulletList.                                        *)
(***************************************************************************)
Heading(level, c) == [type |-> "heading", level |-> level, content |-> c]
Image(alt, filename) == [type |-> "image", alt |-> alt, filename |-> filename]
Bullets(items) == [type |-> "bullets", items |-> items]
NewSlide(title) == [title |-> title, elements |-> <<>>]

\* currentSlide.elements.push(...es)
push(st, es) ==
  [st EXCEPT !.currentSlide =
     [title |-> st.currentSlide.title, elements |-> st.currentSlide.elements \o es]]

\* "End current bullet list": push the open list and forget it
endBulletList(st) ==
  IF st.currentBulletList # Null /\ st.currentSlide # Null
    THEN [currentSlide |-> push(st, <<st.currentBulletList>>).currentSlide,
          currentBulletList |-> Null]
    ELSE st

\* "Initialize slide with empty title if no H1 found yet"
initSlide(st) ==
  IF st.currentSlide = Null THEN [st EXCEPT !.currentSlide = NewSlide(<<>>)] ELSE st

\* a marker taken one character too long
lineContent_offByOne(trimmed, n) == trim(substring(trimmed, n + 1))

\* trimmed.substring(n).trim() of the heading and bullet branches
lineContent(trimmed, n) == trim(substring(trimmed, n))

\* trimmed.match(/^!\[([^\]]*)\]\(([^)]+)\)$/)
imageMatch(s) ==
  IF Len(s) < 2 \/ s[1] # "!" \/ s[2] # "[" THEN Null
  ELSE LET q == firstIndex(s, "]", 3)
       IN IF q = 0 \/ q + 1 > Len(s) \/ s[q + 1] # "(" THEN Null
          ELSE LET r == firstIndex(s, ")", q + 2)
               IN IF r < q + 3 \/ r # Len(s) THEN Null
                  ELSE Image(SubSeq(s, 3, q - 1), SubSeq(s, q + 2, r - 1))

\* the H1 branch
h1Line(st, trimmed) ==
  IF st.currentSlide = Null
    THEN [st EXCEPT !.currentSlide = NewSlide(lineContent(trimmed, 2))]
    ELSE push(endBulletList(st), <<Heading(1, lineContent(trimmed, 2))>>)

\* the bullet branch: open a list if none is open, push the item
bulletLine(st, trimmed) ==
  LET item == parseLine(lineContent(trimmed, 2))
      open == IF st.currentBulletList = Null THEN Bullets(<<>>) ELSE st.currentBulletList
  IN [st EXCEPT !.currentBulletList = Bullets(Append(open.items, item))]

\* a text branch that drops the line it does not recognise
textLine_rejected(st, trimmed) == endBulletList(st)

\* a text branch that does not close the open bullet list first
textLine_noFlush(st, trimmed) == push(st, parseLine(trimmed))

\* "Regular text line"
textLine(st, trimmed) == push(endBulletList(st), parseLine(trimmed))

\* one iteration of the for loop over lines
slideLine(st, line) ==
  LET trimmed == trim(line)
  IN IF trimmed = <<>> THEN endBulletList(st)
     ELSE IF startsWith(trimmed, <<"#", " ">>) THEN h1Line(st, trimmed)
     ELSE LET s1 == initSlide(st)
          IN IF startsWith(trimmed, <<"#", "#", " ">>)
               THEN push(endBulletList(s1), <<Heading(2, lineContent(trimmed, 3))>>)
             ELSE IF startsWith(trimmed, <<"#", "#", "#", " ">>)
               THEN push(endBulletList(s1), <<Heading(3, lineContent(trimmed, 4))>>)
             ELSE IF imageMatch(trimmed) # Null
               THEN push(endBulletList(s1), <<imageMatch(trimmed)>>)
             ELSE IF startsWith(trimmed, <<"-", " ">>) \/ startsWith(trimmed, <<"*", " ">>)
               THEN bulletLine(s1, trimmed)
             ELSE textLine(s1, trimmed)

RECURSIVE slideLines(_, _)
slideLines(st, lines) ==
  IF lines = <<>> THEN st ELSE slideLines(slideLine(st, Head(lines)), Tail(lines))

\* a scanner that forgets the bullet list still open at the end of the block
lastBulletList_forgotten(st) == st

\* "Don't forget the last bullet list"
lastBulletList(st) == endBulletList(st)

parseSlide(md) ==
  LET lines == split(trim(md), <<NL>>)
  IN IF Len(lines) = 0 THEN Null
     ELSE lastBulletList(
            slideLines([currentSlide |-> Null, currentBulletList |-> Null], lines)
          ).currentSlide

(***************************************************************************)
(* parsePresentation: split on the separator, parse each block, keep the   *)
(* slides that are not null.                                               *)
(***************************************************************************)
slideSeparator == <<NL, "-", "-", "-", NL>>

\* a loop that puts each slide in front of the ones already collected
RECURSIVE collectSlides_reversed(_)
collectSlides_reversed(slideContents) ==
  IF slideContents = <<>> THEN <<>>
  ELSE LET s == parseSlide(Head(slideContents))
       IN collectSlides_reversed(Tail(slideContents)) \o (IF s # Null THEN <<s>> ELSE <<>>)

\* the for loop of parsePresentation: slides.push(slide) when slide is not null
RECURSIVE collectSlides(_)
collectSlides(slideContents) ==
  IF slideContents = <<>> THEN <<>>
  ELSE LET s == parseSlide(Head(slideContents))
       IN (IF s # Null THEN <<s>> ELSE <<>>) \o collectSlides(Tail(slideContents))

parsePresentation(md) == collectSlides(split(md, slideSeparator))

(***************************************************************************)
(* Inputs of the inline-span scanner: lines built from at most MaxTokens   *)
(* tokens, and the lines of the test suite.                                *)
(***************************************************************************)
RECURSIVE Flatten(_)
Flatten(ss) == IF ss = <<>> THEN <<>> ELSE Head(ss) \o Flatten(Tail(ss))

LineTokens ==
  { <<"a">>, <<" ">>, <<"*">>, <<"*", "*">>,
    <<"*", "*", "b", "*", "*">>,
    <<"[", "c", "]">>, <<"(", "d", ")">>,
    <<"[", "c", "]", "(", "d", ")">> }

ExampleLine ==
  <<"A", " ", "*", "*", "B", "*", "*", " ", "C", " ",
    "[", "D", "]", "(", "E", ")", " ", "F">>

TokenSeqs(S, n) == UNION {[1..k -> S] : k \in 0..n}

LineInputs == {Flatten(ts) : ts \in TokenSeqs(LineTokens, MaxTokens)} \cup {ExampleLine}

(***************************************************************************)
(* Specification of parseLine on its own.                                  *)
(***************************************************************************)
InitLine ==
  /\ content \in LineInputs
  /\ elements = <<>>
  /\ pc = "start"
  /\ markdown = <<>> /\ slides = <<>>
  /\ slideContent = <<>> /\ slide = Null
  /\ NoApp /\ NoTools

ParseLine ==
  /\ pc = "start"
  /\ elements' = parseLine(content)
  /\ pc' = "done"
  /\ UNCHANGED <<markdown, slides, slideContent, slide, content, appVars, toolVars>>

NextLine == ParseLine

SpecLine == InitLine /\ [][NextLine]_vars

(***************************************************************************)
(* Inputs of parseSlide: blocks of at most MaxBlockLines lines, and the    *)
(* blocks of the test suite.                                               *)
(***************************************************************************)
RECURSIVE Join(_)
Join(ls) ==
  IF ls = <<>> THEN <<>>
  ELSE IF Len(ls) = 1 THEN ls[1]
  ELSE Head(ls) \o <<NL>> \o Join(Tail(ls))

BlockLines ==
  { <<>>,
    <<"#", " ", "T">>,
    <<"#", " ", "U">>,
    <<"#", "#", " ", "S">>,
    <<"#", "#", "#", " ", "H">>,
    <<"!", "[", "a", "]", "(", "f", ")">>,
    <<"-", " ", "x">>,
    <<"-", " ">>,
    <<" ", "*", " ", "[", "c", "]", "(", "d", ")">>,
    <<"t">> }

\* "separates bullet lists by empty lines" of the test suite, shortened
BulletExample ==
  << <<"#", " ", "T">>, <<>>, <<"-", " ", "x">>, <<"-", " ", "y">>, <<>>,
     <<"t">>, <<>>, <<"-", " ", "z">> >>

BlockInputs ==
  {Join(ls) : ls \in TokenSeqs(BlockLines, MaxBlockLines)} \cup {Join(BulletExample)}

InitSlide ==
  /\ slideContent \in BlockInputs
  /\ slide = Null
  /\ pc = "start"
  /\ markdown = <<>> /\ slides = <<>>
  /\ content = <<>> /\ elements = <<>>
  /\ NoApp /\ NoTools

ParseSlide ==
  /\ pc = "start"
  /\ slide' = parseSlide(slideContent)
  /\ pc' = "done"
  /\ UNCHANGED <<markdown, slides, slideContent, content, elements, appVars, toolVars>>

NextSlide == ParseSlide

SpecSlide == InitSlide /\ [][NextSlide]_vars

(***************************************************************************)
(* Inputs of parsePresentation: documents of at most MaxDocLines lines,    *)
(* and the documents of the test suite.                                    *)
(***************************************************************************)
SeparatorLine == <<"-", "-", "-">>

DocLines ==
  { SeparatorLine,
    <<>>,
    <<"#", " ", "T">>,
    <<"t">>,
    <<"f", "o", "n", "t", ":", " ", "f">>,
    <<"a", "l", "i", "g", "n", ":", " ", "c">> }

\* "handles empty slides gracefully" of the test suite
EmptySlidesDoc ==
  << <<"#", " ", "T">>, <<>>, SeparatorLine, <<>>, SeparatorLine, <<>>, <<"#", " ", "U">> >>

\* "parses single slide with title" of the test suite
HelloDoc == <<"#", " ", "H", "e", "l", "l", "o", " ", "W", "o", "r", "l", "d">>

DocInputs ==
  {Join(ls) : ls \in TokenSeqs(DocLines, MaxDocLines)} \cup {Join(EmptySlidesDoc), HelloDoc}

Init ==
  /\ markdown \in DocInputs
  /\ slides = <<>>
  /\ pc = "start"
  /\ slideContent = <<>> /\ slide = Null
  /\ content = <<>> /\ elements = <<>>
  /\ NoApp /\ NoTools

ParsePresentation ==
  /\ pc = "start"
  /\ slides' = parsePresentation(markdown)
  /\ pc' = "done"
  /\ UNCHANGED <<markdown, slideContent, slide, content, elements, appVars, toolVars>>

Next == ParsePresentation

SpecParse == Init /\ [][Next]_vars

(***************************************************************************)
(* What the regular expression of parseLine matches, stated on positions:  *)
(* s[a..b] is a link span, or a bold span.                                 *)
(***************************************************************************)
IsLinkSpan(s, a, b) ==
  /\ 1 <= a /\ b <= Len(s)
  /\ s[a] = "[" /\ s[b] = ")"
  /\ \E q \in (a + 2)..(b - 3) :
       /\ s[q] = "]" /\ s[q + 1] = "("
       /\ \A i \in (a + 1)..(q - 1) : s[i] # "]"
       /\ \A i \in (q + 2)..(b - 1) : s[i] # ")"

IsBoldSpan(s, a, b) ==
  /\ 1 <= a /\ b <= Len(s) /\ b >= a + 4
  /\ s[a] = "*" /\ s[a + 1] = "*" /\ s[b - 1] = "*" /\ s[b] = "*"
  /\ \A i \in (a + 2)..(b - 2) : s[i] # "*"

MatchStartsAt(s, p) ==
  \E b \in p..Len(s) : IsLinkSpan(s, p, b) \/ IsBoldSpan(s, p, b)

HasMatch(s) == \E p \in 1..Len(s) : MatchStartsAt(s, p)

\* a fragment written back in the syntax it was read from
Unparse(f) ==
  IF f.type = "link" THEN <<"[">> \o f.text \o <<"]", "(">> \o f.url \o <<")">>
  ELSE IF "bold" \in DOMAIN f THEN <<"*", "*">> \o f.content \o <<"*", "*">>
  ELSE f.content

IsPlain(f) == f.type = "text" /\ "bold" \notin DOMAIN f

\* number of characters of s covered by the first k fragments
RECURSIVE Covered(_, _)
Covered(fs, k) == IF k = 0 THEN 0 ELSE Covered(fs, k - 1) + Len(Unparse(fs[k]))

\* the fragments fs lie on s one after the other without gap or overlap: each
\* link or bold fragment on a span the regular expression matches, each plain
\* fragment on a stretch in which no match starts, no two plain fragments
\* adjacent
Tiles(s, fs) ==
  /\ Covered(fs, Len(fs)) = Len(s)
  /\ \A k \in 1..Len(fs) :
       LET a == Covered(fs, k - 1) + 1
           b == Covered(fs, k)
       IN /\ SubSeq(s, a, b) = Unparse(fs[k])
          /\ IF IsPlain(fs[k])
               THEN /\ \A p \in a..b : ~MatchStartsAt(s, p)
                    /\ k < Len(fs) => ~IsPlain(fs[k + 1])
             ELSE IF fs[k].type = "link" THEN IsLinkSpan(s, a, b)
             ELSE IsBoldSpan(s, a, b)

ExampleFragments ==
  << Text(<<"A", " ">>), Bold(<<"B">>), Text(<<" ", "C", " ">>),
     Link(<<"D">>, <<"E">>), Text(<<" ", "F">>) >>

\* C5: the fragments parseLine returns are the link and bold spans of the line
\* in source order, non-overlapping, with every stretch of text before, between
\* and after them as one plain text fragment in its place; and the line
\* "A **B** C [D](E) F" yields text "A ", bold "B", text " C ", link(D, E),
\* text " F".
C5_InlineSpansInOrder ==
  pc = "done" =>
    /\ Tiles(content, elements)
    /\ content = ExampleLine => elements = ExampleFragments

C5_Witness ==
  /\ pc = "done"
  /\ content = ExampleLine
  /\ elements = ExampleFragments

\* C6: a line without any link or bold match yields exactly one plain text
\* fragment whose content is the whole line, and no line yields an empty
\* fragment list.
C6_NoMatchOneFragment ==
  pc = "done" =>
    /\ Len(elements) >= 1
    /\ ~HasMatch(content) => elements = <<Text(content)>>

C6_Witness ==
  /\ pc = "done"
  /\ ~HasMatch(content)
  /\ \E i \in 1..Len(content) : content[i] = "["
  /\ \E i \in 1..Len(content) : content[i] = "*"
  /\ elements = <<Text(content)>>

(***************************************************************************)
(* The lines of a slide block and of a document, classified as the spec    *)
(* classifies them (on the line without its surrounding white space).      *)
(***************************************************************************)
LinesOf(text) == split(text, <<NL>>)

IsBlankLine(l) == trim(l) = <<>>
IsH1Line(l) == startsWith(trim(l), <<"#", " ">>)
IsH2Line(l) == startsWith(trim(l), <<"#", "#", " ">>)
IsH3Line(l) == startsWith(trim(l), <<"#", "#", "#", " ">>)
IsImageLine(l) == imageMatch(trim(l)) # Null
IsBulletLine(l) ==
  startsWith(trim(l), <<"-", " ">>) \/ startsWith(trim(l), <<"*", " ">>)
IsTextLine(l) ==
  ~(IsBlankLine(l) \/ IsH1Line(l) \/ IsH2Line(l) \/ IsH3Line(l)
      \/ IsImageLine(l) \/ IsBulletLine(l))

\* the text of a heading or bullet line after its marker of n characters
AfterMarker(l, n) == trim(SubSeq(trim(l), n + 1, Len(trim(l))))

Least(S) == CHOOSE i \in S : \A j \in S : i <= j

IsBulletsElement(e) == e.type = "bullets"
IsInlineElement(e) == e.type \in {"text", "link"}
IsH1Element(e) == e.type = "heading" /\ e.level = 1

ElementKinds(es) == [k \in 1..Len(es) |-> es[k].type]

\* a maximal run of consecutive bullet lines starts at line i
RunStart(ls, i) == IsBulletLine(ls[i]) /\ (i = 1 \/ ~IsBulletLine(ls[i - 1]))

RunEnd(ls, i) ==
  Least({j \in i..Len(ls) : j = Len(ls) \/ ~IsBulletLine(ls[j + 1])})

\* the bullets element of the run that starts at line i: one item per line
RunElement(ls, i) ==
  Bullets([k \in 1..(RunEnd(ls, i) - i + 1) |-> parseLine(AfterMarker(ls[i + k - 1], 2))])

RECURSIVE ExpectedBullets(_, _)
ExpectedBullets(ls, i) ==
  IF i > Len(ls) THEN <<>>
  ELSE (IF RunStart(ls, i) THEN <<RunElement(ls, i)>> ELSE <<>>)
         \o ExpectedBullets(ls, i + 1)

\* the elements line i of a block produces, by itself
LineElements(ls, i) ==
  LET l == ls[i]
  IN IF IsBlankLine(l) THEN <<>>
     ELSE IF IsH1Line(l)
       THEN IF \A j \in 1..(i - 1) : IsBlankLine(ls[j])
              THEN <<>>
              ELSE <<Heading(1, AfterMarker(l, 2))>>
     ELSE IF IsH2Line(l) THEN <<Heading(2, AfterMarker(l, 3))>>
     ELSE IF IsH3Line(l) THEN <<Heading(3, AfterMarker(l, 4))>>
     ELSE IF IsImageLine(l) THEN <<imageMatch(trim(l))>>
     ELSE IF IsBulletLine(l)
       THEN IF RunStart(ls, i) THEN <<RunElement(ls, i)>> ELSE <<>>
     ELSE parseLine(trim(l))

\* C3: the title of a slide is the content of the first "# " line of its
\* block wherever that line stands, the empty string when there is none, and
\* the later "# " lines are exactly the level-1 heading elements.
C3_TitleIsFirstH1 ==
  (pc = "done" /\ slide # Null) =>
    LET ls == LinesOf(slideContent)
        hs == {i \in 1..Len(ls) : IsH1Line(ls[i])}
    IN /\ slide.title = IF hs = {} THEN <<>> ELSE AfterMarker(ls[Least(hs)], 2)
       /\ Len(SelectSeq(slide.elements, IsH1Element)) =
            IF hs = {} THEN 0 ELSE Cardinality(hs) - 1

C9_ElementsInSourceOrder ==
  (pc = "done" /\ slide # Null) =>
    LET ls == LinesOf(slideContent)
    IN slide.elements = Flatten([i \in 1..Len(ls) |-> LineElements(ls, i)])

C9_Witness ==
  /\ pc = "done"
  /\ slide # Null
  /\ ElementKinds(slide.elements) = <<"heading", "bullets", "text", "image">>

(***************************************************************************)
(* Documents: the blocks between standalone separator lines.               *)
(***************************************************************************)
RECURSIVE BlocksOf(_)
BlocksOf(ls) ==
  LET seps == {i \in 1..Len(ls) : ls[i] = SeparatorLine}
  IN IF seps = {} THEN <<ls>>
     ELSE <<SubSeq(ls, 1, Least(seps) - 1)>>
            \o BlocksOf(SubSeq(ls, Least(seps) + 1, Len(ls)))

NonEmptyBlock(b) == \E i \in 1..Len(b) : ~IsBlankLine(b[i])

IsKeyValueLine(l) == \E i \in 2..(Len(l) - 1) : l[i] = ":" /\ l[i + 1] = " "
KeyOf(l) == SubSeq(l, 1, firstIndex(l, ":", 1) - 1)
ValueOf(l) == trim(SubSeq(l, firstIndex(l, ":", 1) + 1, Len(l)))

\* ---, key: value lines, ---, # T
IsFrontmatterDoc(ls) ==
  /\ Len(ls) >= 3
  /\ ls[1] = SeparatorLine
  /\ ls[Len(ls) - 1] = SeparatorLine
  /\ IsH1Line(ls[Len(ls)])
  /\ \A i \in 2..(Len(ls) - 2) : IsKeyValueLine(ls[i])

FrontmatterOf(ls) ==
  LET kv == {i \in 2..(Len(ls) - 2) : TRUE}
  IN [key \in {KeyOf(ls[i]) : i \in kv} |->
        ValueOf(ls[CHOOSE i \in kv : KeyOf(ls[i]) = key])]

\* C2: a leading block opened and closed by --- is frontmatter, not a slide
\* boundary: ---, font: F, align: A, ---, # T parses to exactly one slide
\* with title T and that frontmatter, and the key/value lines produce no
\* elements.
C2_FrontmatterBlock ==
  LET ls == LinesOf(markdown)
  IN (pc = "done" /\ IsFrontmatterDoc(ls)) =>
       /\ Len(slides) = 1
       /\ slides[1].title = AfterMarker(ls[Len(ls)], 2)
       /\ slides[1].elements = <<>>
       /\ "frontmatter" \in DOMAIN slides[1]
       /\ slides[1].frontmatter = FrontmatterOf(ls)

\* two separator lines with nothing or only blank lines between them, a
\* non-empty block before and one after, and no other separator
IsDoubleSeparatorDoc(ls, i, j) ==
  /\ {k \in 1..Len(ls) : ls[k] = SeparatorLine} = {i, j}
  /\ i < j
  /\ \A k \in (i + 1)..(j - 1) : IsBlankLine(ls[k])
  /\ NonEmptyBlock(SubSeq(ls, 1, i - 1))
  /\ NonEmptyBlock(SubSeq(ls, j + 1, Len(ls)))

HasSeparatorElement(s) ==
  \E k \in 1..Len(s.elements) : s.elements[k] = Text(SeparatorLine)

\* C7: the empty block between two separator lines is dropped: the slides
\* before and after are returned as if a single separator stood there, and no
\* slide receives an element made from a separator line.
C7_EmptyBlockDropped ==
  LET ls == LinesOf(markdown)
  IN pc = "done" =>
       \A i, j \in 1..Len(ls) :
         IsDoubleSeparatorDoc(ls, i, j) =>
           /\ slides = << parseSlide(Join(SubSeq(ls, 1, i - 1))),
                          parseSlide(Join(SubSeq(ls, j + 1, Len(ls)))) >>
           /\ \A k \in 1..Len(slides) : ~HasSeparatorElement(slides[k])

ElementTypes == {"heading", "text", "bullets", "image", "link"}

IsSlide(s) ==
  /\ DOMAIN s = {"title", "elements"}
  /\ \A k \in 1..Len(s.elements) : s.elements[k].type \in ElementTypes

IsNotSeparatorText(e) == e # Text(SeparatorLine)

\* the inline fragments the unrecognised lines of a document produce, the
\* separator lines left out
RECURSIVE ExpectedInline(_)
ExpectedInline(ls) ==
  IF ls = <<>> THEN <<>>
  ELSE (IF IsTextLine(Head(ls)) /\ trim(Head(ls)) # SeparatorLine
          THEN parseLine(trim(Head(ls)))
          ELSE <<>>)
         \o ExpectedInline(Tail(ls))

\* C8: parsePresentation returns a finite list of slides for every text, and
\* every non-blank line that is no heading, image, bullet or separator line
\* is kept, in place, as the plain text or inline fragments of its slide.
C8_UnrecognisedKeptAsText ==
  pc = "done" =>
    /\ \A k \in 1..Len(slides) : IsSlide(slides[k])
    /\ SelectSeq(
         Flatten([k \in 1..Len(slides) |-> SelectSeq(slides[k].elements, IsInlineElement)]),
         IsNotSeparatorText)
         = ExpectedInline(LinesOf(markdown))

C8_Witness ==
  /\ pc = "done"
  /\ Len(slides) = 2
  /\ slides[1].elements = <<Text(<<"f", "o", "n", "t", ":", " ", "f">>)>>
  /\ slides[2].elements = <<Text(<<"a", "l", "i", "g", "n", ":", " ", "c">>), Text(<<"t">>)>>

\* a document that is only "# Title"
IsTitleOnlyDoc(md) ==
  /\ Len(md) >= 3
  /\ md[1] = "#" /\ md[2] = " "
  /\ ~IsSpace(md[3]) /\ ~IsSpace(md[Len(md)])
  /\ \A i \in 1..Len(md) : md[i] # NL

\* C10: a document that is only "# Title" parses to exactly one slide with
\* that title, no elements and no frontmatter value.
C10_TitleOnly ==
  (pc = "done" /\ IsTitleOnlyDoc(markdown)) =>
    /\ Len(slides) = 1
    /\ slides[1].title = SubSeq(markdown, 3, Len(markdown))
    /\ slides[1].elements = <<>>
    /\ "frontmatter" \notin DOMAIN slides[1]

C10_Witness ==
  /\ pc = "done"
  /\ markdown = HelloDoc
  /\ slides = <<[title |-> SubSeq(HelloDoc, 3, Len(HelloDoc)), elements |-> <<>>]>>

(***************************************************************************)
(* The renderer's link state (src/src/renderer.ts).  A link of the list    *)
(* carries its text, its URL and the background colour of its box.         *)
(***************************************************************************)

\* bound: the renderSlide and executeTmuxLink calls in progress at one time
MaxTasks == 2

NormalColor == <<"#", "1", "6", "2", "1", "3", "e">>
SelectedColor == <<"#", "e", "9", "4", "5", "6", "0">>

\* the renderer's fields the link operations read and write
LinkState(ls, index) == [links |-> ls, selectedLinkIndex |-> index]

\* JavaScript's remainder: the sign of the result is the sign of the dividend
rem(a, n) == IF a >= 0 THEN a % n ELSE 0 - ((0 - a) % n)

\* a link of the list as registered: its box has the unselected colour
registered(el) == [text |-> el.text, url |-> el.url, box |-> NormalColor]

isLink(el) == el.type = "link"

\* item.find(el => el.type === "link") of a bullet item that has a link
firstLink(item) ==
  item[CHOOSE i \in DOMAIN item :
         isLink(item[i]) /\ \A j \in DOMAIN item : isLink(item[j]) => i <= j]

\* the bullets branch of renderElement: one box per item, and the item's box
\* is registered with the first link of the item when the item has a link
RECURSIVE bulletLinks(_, _, _)
bulletLinks(items, i, ls) ==
  IF i > Len(items) THEN ls
  ELSE LET item == items[i]
           hasLink == \E j \in DOMAIN item : isLink(item[j])
       IN  bulletLinks(items, i + 1,
                       IF hasLink THEN Append(ls, registered(firstLink(item)))
                       ELSE ls)

\* renderElement of an element that does not wait: what it does to this.links
elementLinks(el, ls) ==
  CASE el.type = "bullets" -> bulletLinks(el.items, 1, ls)
    [] el.type = "link" -> Append(ls, registered(el))
    [] OTHER -> ls

\* the loop of renderSlide over slide.elements from position k on, up to the
\* first element whose rendering waits (an image, read from a file): the
\* result is the link list and the position of that image, 0 at the end
RECURSIVE renderElements(_, _, _)
renderElements(els, k, ls) ==
  IF k > Len(els) THEN [links |-> ls, waitAt |-> 0]
  ELSE IF els[k].type = "image" THEN [links |-> ls, waitAt |-> k]
  ELSE renderElements(els, k + 1, elementLinks(els[k], ls))

highlightLink_keep(st, index) ==
  IF index >= 0 /\ index < Len(st.links)
  THEN LinkState([st.links EXCEPT ![index + 1].box = SelectedColor], index)
  ELSE st

highlightLink(st, index) ==
  LET reset == [i \in DOMAIN st.links |-> [st.links[i] EXCEPT !.box = NormalColor]]
  IN  IF index >= 0 /\ index < Len(st.links)
      THEN LinkState([reset EXCEPT ![index + 1].box = SelectedColor], index)
      ELSE LinkState(reset, st.selectedLinkIndex)

navigateLinks_noWrap(st, direction) ==
  IF direction = "down"
  THEN LinkState(st.links, st.selectedLinkIndex + 1)
  ELSE LinkState(st.links, st.selectedLinkIndex - 1)

navigateLinks_stuck(st, direction) ==
  IF Len(st.links) = 0 THEN st
  ELSE LET n == Len(st.links)
           index == IF direction = "down"
                    THEN IF st.selectedLinkIndex + 1 < n
                         THEN st.selectedLinkIndex + 1 ELSE st.selectedLinkIndex
                    ELSE IF st.selectedLinkIndex > 0
                         THEN st.selectedLinkIndex - 1 ELSE st.selectedLinkIndex
       IN  highlightLink(LinkState(st.links, index), index)

navigateLinks(st, direction) ==
  IF Len(st.links) = 0 THEN st
  ELSE LET n == Len(st.links)
           index == IF direction = "down"
                    THEN rem(st.selectedLinkIndex + 1, n)
                    ELSE rem(st.selectedLinkIndex - 1 + n, n)
       IN  highlightLink(LinkState(st.links, index), index)

getSelectedLink(st) ==
  IF st.selectedLinkIndex >= 0 /\ st.selectedLinkIndex < Len(st.links)
  THEN st.links[st.selectedLinkIndex + 1]
  ELSE Null

\* the statements of renderSlide before its first wait
renderStart_keep(st) == LinkState(st.links, 0)

renderStart(st) == LinkState(<<>>, 0)

\* the end of renderSlide
renderEnd(st) == IF Len(st.links) > 0 THEN highlightLink(st, 0) ELSE st

(***************************************************************************)
(* executeTmuxLink (src/src/presentation.ts).  A call in progress carries  *)
(* the pane and the command of its URL, the tmux command it waits for and  *)
(* the log of the tmux commands it has issued with their results.          *)
(***************************************************************************)

TmuxScheme == <<"t", "m", "u", "x", ":", "/", "/">>

\* url.match(/^tmux:\/\/([^/]+)\/(.+)$/): the pane runs to the first slash
\* after the scheme, the command is the rest; neither is empty
tmuxMatch(url) ==
  IF ~startsWith(url, TmuxScheme) THEN Null
  ELSE LET rest == substring(url, Len(TmuxScheme))
           i == firstIndex(rest, "/", 1)
       IN  IF i < 2 \/ i = Len(rest) THEN Null
           ELSE IF \E j \in (i + 1)..Len(rest) : rest[j] = NL THEN Null
           ELSE [type |-> "match",
                 pane |-> SubSeq(rest, 1, i - 1),
                 command |-> SubSeq(rest, i + 1, Len(rest))]

\* the task after it has started the tmux command cmd
issue(task, cmd) ==
  [task EXCEPT
     !.at = cmd,
     !.log = Append(@, [cmd |-> cmd,
                        target |-> task.pane,
                        keys |-> IF cmd = "send-keys"
                                 THEN <<task.command, <<"E", "n", "t", "e", "r">> >>
                                 ELSE <<>>,
                        result |-> "pending"])]

\* the task after the command it waits for has ended
settle(task, ok) ==
  [task EXCEPT !.log[Len(task.log)].result = IF ok THEN "ok" ELSE "failed"]

\* a step of executeTmuxLink: the call goes on, or it has returned
Goes(task) == [task |-> task, done |-> FALSE, logged |-> "", escaped |-> FALSE]

Returns(task, logged, escaped) ==
  [task |-> task, done |-> TRUE, logged |-> logged, escaped |-> escaped]

executeTmuxLink(url) ==
  LET match == tmuxMatch(url)
  IN  IF match = Null
      THEN Returns([url |-> url, pane |-> <<>>, command |-> <<>>,
                    at |-> "match", log |-> <<>>],
                   "Invalid tmux URL", FALSE)
      ELSE Goes(issue([url |-> url, pane |-> match.pane, command |-> match.command,
                       at |-> "match", log |-> <<>>],
                      "list-panes"))

listPanesDone(task, ok) ==
  IF ok THEN Goes(issue(settle(task, ok), "send-keys"))
  ELSE Goes(issue(settle(task, ok), "new-window"))

newWindowDone_gaveUp(task, ok) ==
  IF ok THEN Goes(issue(settle(task, ok), "send-keys"))
  ELSE Returns(settle(task, ok), "Failed to execute tmux link", FALSE)

newWindowDone(task, ok) == Goes(issue(settle(task, ok), "send-keys"))

sendKeysDone_uncaught(task, ok) ==
  IF ok THEN Returns(settle(task, ok), "", FALSE)
  ELSE Returns(settle(task, ok), "", TRUE)

sendKeysDone(task, ok) ==
  IF ok THEN Returns(settle(task, ok), "", FALSE)
  ELSE Returns(settle(task, ok), "Failed to execute tmux link", FALSE)

(***************************************************************************)
(* The presentation (src/src/presentation.ts): main loads and parses the   *)
(* document, renders the first slide and then handles key events.  A       *)
(* renderSlide call waits for its 16 ms timer and for the file of every    *)
(* image; key events and other calls run while it waits.                   *)
(***************************************************************************)

\* a slide with a link, an image and a bullet item holding two links
LinksSlide ==
  <<"#", " ", "A", NL, "[", "a", "]", "(", "t", "m", "u", "x", ":", "/",
    "/", "q", ")", NL, "!", "[", "i", "]", "(", "f", ")", NL, "-", " ",
    "[", "b", "]", "(", "h", ")", " ", "[", "c", "]", "(", "k", ")">>

\* a slide without links
PlainSlide ==
  <<"#", " ", "B", NL, "!", "[", "i", "]", "(", "f", ")", NL, "t">>

\* a slide with three registered links, one of them in the second bullet item
ThreeLinksSlide ==
  <<"#", " ", "C", NL, "[", "d", "]", "(", "k", ")", NL, "[", "e", "]",
    "(", "h", ")", NL, "!", "[", "i", "]", "(", "f", ")", NL, "-", " ",
    "x", NL, "-", " ", "[", "g", "]", "(", "t", "m", "u", "x", ":", "/",
    "/", "q", ")">>

\* a slide whose links run tmux commands, with the URLs the pattern of
\* executeTmuxLink accepts and the ones it rejects
TmuxSlide ==
  <<"#", " ", "D", NL, "!", "[", "i", "]", "(", "f", ")", NL, "[", "r",
    "]", "(", "t", "m", "u", "x", ":", "/", "/", "p", "/", "c", " ", "d",
    ")", NL, "[", "s", "]", "(", "t", "m", "u", "x", ":", "/", "/", "q",
    "/", "e", "/", "f", ")", NL, "[", "u", "]", "(", "h", ")", NL, "[",
    "v", "]", "(", "t", "m", "u", "x", ":", "/", "/", "q", ")", NL, "[",
    "w", "]", "(", "t", "m", "u", "x", ":", "/", "/", "/", "c", ")", NL,
    "[", "x", "]", "(", "t", "m", "u", "x", ":", "/", "/", "p", "/", ")">>

RECURSIVE Deck(_)
Deck(blocks) ==
  IF blocks = <<>> THEN <<>>
  ELSE IF Len(blocks) = 1 THEN blocks[1]
  ELSE Head(blocks) \o <<NL, "-", "-", "-", NL>> \o Deck(Tail(blocks))

\* documents without a slide's content: blank lines, a separator between
\* blank blocks, separator lines only
BlankDoc == <<NL, NL>>
BlankBlocksDoc == <<NL, "-", "-", "-", NL>>
SeparatorsDoc == <<"-", "-", "-", NL, "-", "-", "-", NL, "-", "-", "-">>

DeckInputs ==
  { Deck(<<>>), BlankDoc, BlankBlocksDoc, SeparatorsDoc,
    Deck(<<ThreeLinksSlide>>),
    Deck(<<LinksSlide, PlainSlide>>),
    Deck(<<PlainSlide, ThreeLinksSlide, LinksSlide>>) }

\* the renderer's link fields, and their assignment
Fields == LinkState(links, selectedLinkIndex)

SetFields(st) ==
  /\ links' = st.links
  /\ selectedLinkIndex' = st.selectedLinkIndex

\* sequence s without its element i
Remove(s, i) == SubSeq(s, 1, i - 1) \o SubSeq(s, i + 1, Len(s))

\* renderSlide(slides[index]) up to its first wait; the calls that are in
\* progress together are marked as overlapped
startRender(index) ==
  /\ SetFields(renderStart(Fields))
  /\ renders' =
       Append([i \in DOMAIN renders |-> [renders[i] EXCEPT !.overlapped = TRUE]],
              [slide |-> index, waitAt |-> 0, overlapped |-> renders # <<>>])

\* main has not started
Loading ==
  /\ slides = <<>> /\ pc = "start"
  /\ slideContent = <<>> /\ slide = Null
  /\ content = <<>> /\ elements = <<>>
  /\ app = "load"
  /\ currentSlide = 0
  /\ links = <<>>
  /\ selectedLinkIndex = 0
  /\ renders = <<>>
  /\ tmuxTasks = <<>>
  /\ event = [kind |-> "none"]
  /\ NoTools

\* decks whose links start no tmux command
InitShow == markdown \in DeckInputs /\ Loading

\* a deck whose links start tmux commands
InitTmux == markdown = Deck(<<TmuxSlide>>) /\ Loading

\* main up to the first wait of the first renderSlide
Startup ==
  /\ app = "load"
  /\ slides' = parsePresentation(markdown)
  /\ pc' = "done"
  /\ IF Len(slides') = 0
     THEN /\ app' = "exited"
          /\ event' = [kind |-> "exit", code |-> 1]
          /\ UNCHANGED <<currentSlide, links, selectedLinkIndex, renders>>
     ELSE /\ app' = "starting"
          /\ event' = [kind |-> "startup"]
          /\ startRender(0)
          /\ UNCHANGED currentSlide
  /\ UNCHANGED <<markdown, slideContent, slide, content, elements, tmuxTasks, toolVars>>

\* a renderSlide or executeTmuxLink call can still be started
HasRoom == Len(renders) + Len(tmuxTasks) < MaxTasks

\* renderSlide call i goes on with element k of its slide, up to its next
\* wait or to its end; main installs the key handler when the first
\* renderSlide has returned
resume(i, k) ==
  LET call == renders[i]
      r == renderElements(slides[call.slide + 1].elements, k, links)
  IN  IF r.waitAt > 0
      THEN /\ links' = r.links
           /\ renders' = [renders EXCEPT ![i].waitAt = r.waitAt]
           /\ event' = [kind |-> "waiting", slide |-> call.slide]
           /\ UNCHANGED <<selectedLinkIndex, app>>
      ELSE /\ SetFields(renderEnd(LinkState(r.links, selectedLinkIndex)))
           /\ renders' = Remove(renders, i)
           /\ event' = [kind |-> "rendered", slide |-> call.slide,
                        overlapped |-> call.overlapped]
           /\ app' = IF app = "starting" THEN "running" ELSE app

\* the 16 ms timer of a renderSlide call fires; timers fire in the order set
TimerFires ==
  \E i \in DOMAIN renders :
    /\ renders[i].waitAt = 0
    /\ \A j \in 1..(i - 1) : renders[j].waitAt # 0
    /\ resume(i, 1)
    /\ UNCHANGED <<parserVars, toolVars, currentSlide, tmuxTasks>>

\* the read of an image's file ends, with the content or with an error
ImageRead ==
  \E i \in DOMAIN renders :
    /\ renders[i].waitAt > 0
    /\ resume(i, renders[i].waitAt + 1)
    /\ UNCHANGED <<parserVars, toolVars, currentSlide, tmuxTasks>>

slideAfter_wrap(name, current, n) ==
  IF name = "right" THEN (current + 1) % n ELSE (current - 1 + n) % n

\* the slide index after the right or the left key
slideAfter(name, current, n) ==
  IF name = "right"
  THEN IF current < n - 1 THEN current + 1 ELSE current
  ELSE IF current > 0 THEN current - 1 ELSE current

KeySlide ==
  \E name \in {"left", "right"} :
    /\ app = "running"
    /\ LET index == slideAfter(name, currentSlide, Len(slides))
       IN  IF index # currentSlide
           THEN /\ HasRoom
                /\ currentSlide' = index
                /\ startRender(index)
                /\ event' = [kind |-> "key", name |-> name, rendering |-> index]
           ELSE /\ event' = [kind |-> "key", name |-> name, rendering |-> -1]
                /\ UNCHANGED <<currentSlide, links, selectedLinkIndex, renders>>
    /\ UNCHANGED <<parserVars, toolVars, app, tmuxTasks>>

KeyLink ==
  \E name \in {"up", "down"} :
    /\ app = "running"
    /\ SetFields(navigateLinks(Fields, name))
    /\ event' = [kind |-> "key", name |-> name, links |-> Len(links)]
    /\ UNCHANGED <<parserVars, toolVars, app, currentSlide, renders, tmuxTasks>>

\* what the Enter handler does with the link it got
dispatch(link) ==
  IF link # Null /\ startsWith(link.url, TmuxScheme) THEN "tmux" ELSE "none"

KeyEnter ==
  /\ app = "running"
  /\ LET link == getSelectedLink(Fields)
     IN  IF dispatch(link) = "tmux"
         THEN LET call == executeTmuxLink(link.url)
              IN  /\ HasRoom
                  /\ tmuxTasks' = IF call.done THEN tmuxTasks
                                  ELSE Append(tmuxTasks, call.task)
                  /\ event' = [kind |-> "key", name |-> "enter", link |-> link,
                               dispatched |-> "tmux", call |-> call]
                  /\ app' = IF call.escaped THEN "crashed" ELSE app
         ELSE /\ event' = [kind |-> "key", name |-> "enter", link |-> link,
                           dispatched |-> "none", call |-> Null]
              /\ UNCHANGED <<tmuxTasks, app>>
  /\ UNCHANGED <<parserVars, toolVars, currentSlide, links, selectedLinkIndex, renders>>

\* the tmux command an executeTmuxLink call waits for ends; an error that
\* leaves the call leaves the key handler too and ends the program
TmuxCommandEnds ==
  \E i \in DOMAIN tmuxTasks : \E ok \in BOOLEAN :
    LET task == tmuxTasks[i]
        call == CASE task.at = "list-panes" -> listPanesDone(task, ok)
                  [] task.at = "new-window" -> newWindowDone(task, ok)
                  [] task.at = "send-keys" -> sendKeysDone(task, ok)
    IN  /\ app = "running"
        /\ tmuxTasks' = IF call.done THEN Remove(tmuxTasks, i)
                        ELSE [tmuxTasks EXCEPT ![i] = call.task]
        /\ event' = [kind |-> "tmux", call |-> call]
        /\ app' = IF call.escaped THEN "crashed" ELSE app
        /\ UNCHANGED <<parserVars, toolVars, currentSlide, links, selectedLinkIndex, renders>>

\* the presentation of a deck none of whose links starts a tmux command
NextShow ==
  \/ Startup
  \/ TimerFires
  \/ ImageRead
  \/ KeySlide
  \/ KeyLink
  \/ KeyEnter

SpecShow == InitShow /\ [][NextShow]_vars

\* the presentation of a deck with tmux links
NextTmux ==
  \/ Startup
  \/ TimerFires
  \/ ImageRead
  \/ KeySlide
  \/ KeyLink
  \/ KeyEnter
  \/ TmuxCommandEnds

SpecTmux == InitTmux /\ [][NextTmux]_vars

(***************************************************************************)
(* Link navigation and the link list.                                      *)
(***************************************************************************)

\* the positions of the link list whose box carries the selected highlight
Highlighted == {i \in DOMAIN links : links[i].box = SelectedColor}

\* text and URL of the entries of a link list
LinkPairs(ls) == [i \in DOMAIN ls |-> [text |-> ls[i].text, url |-> ls[i].url]]

RECURSIVE navigateTimes(_, _, _)
navigateTimes(st, direction, n) ==
  IF n = 0 THEN st ELSE navigateTimes(navigateLinks(st, direction), direction, n - 1)

\* C11: with N >= 1 links and any selected index, navigateLinks("down") moves
\* the selection to (index + 1) mod N and navigateLinks("up") to
\* (index - 1) mod N; N calls in one direction come back to the index they
\* started from, and "up" undoes "down"; the links themselves stay
C11_NavigationWraps ==
  Len(links) >= 1 =>
    LET n == Len(links)
        down == navigateLinks(Fields, "down")
        up == navigateLinks(Fields, "up")
    IN  /\ selectedLinkIndex \in 0..(n - 1)
        /\ down.selectedLinkIndex = (selectedLinkIndex + 1) % n
        /\ up.selectedLinkIndex = (selectedLinkIndex + n - 1) % n
        /\ navigateTimes(Fields, "down", n).selectedLinkIndex = selectedLinkIndex
        /\ navigateTimes(Fields, "up", n).selectedLinkIndex = selectedLinkIndex
        /\ navigateLinks(down, "up").selectedLinkIndex = selectedLinkIndex
        /\ LinkPairs(down.links) = LinkPairs(links)
        /\ LinkPairs(up.links) = LinkPairs(links)

\* the down key has wrapped the selection of three links from the last link
\* to the first
C11_Witness ==
  /\ event.kind = "key" /\ event.name = "down"
  /\ event.links = 3 /\ Len(links) = 3
  /\ selectedLinkIndex = 0
  /\ Highlighted = {1}

\* C12: navigateLinks on an empty link list changes nothing: the link list,
\* the selected index and the current slide are as they were
C12_EmptyListUnchanged ==
  [][(/\ event'.kind = "key"
      /\ event'.name \in {"up", "down"}
      /\ links = <<>>)
     => (/\ links' = links
         /\ selectedLinkIndex' = selectedLinkIndex
         /\ currentSlide' = currentSlide
         /\ renders' = renders
         /\ app' = app)]_vars

\* the up key was pressed on a rendered slide without links
C12_Witness ==
  /\ event.kind = "key" /\ event.name = "up"
  /\ event.links = 0
  /\ links = <<>> /\ selectedLinkIndex = 0
  /\ renders = <<>>

\* C13: getSelectedLink returns the text and the URL of the highlighted
\* link, the link at the selected index, whenever the link list is not
\* empty, and null exactly when the list is empty
C13_SelectedIsHighlighted ==
  app = "running" =>
    LET link == getSelectedLink(Fields)
    IN  /\ (link = Null) <=> (links = <<>>)
        /\ links # <<>> =>
             /\ Highlighted = {selectedLinkIndex + 1}
             /\ link.text = links[selectedLinkIndex + 1].text
             /\ link.url = links[selectedLinkIndex + 1].url

\* the link elements of a sequence of inline elements, in order
RECURSIVE LinksOfItem(_)
LinksOfItem(item) ==
  IF item = <<>> THEN <<>>
  ELSE (IF Head(item).type = "link"
        THEN <<[text |-> Head(item).text, url |-> Head(item).url]>>
        ELSE <<>>) \o LinksOfItem(Tail(item))

\* every link element of a slide's elements, the top-level ones and the ones
\* inside bullet items, in order
RECURSIVE AllLinks(_)
AllLinks(els) ==
  IF els = <<>> THEN <<>>
  ELSE (CASE Head(els).type = "link" -> LinksOfItem(<<Head(els)>>)
          [] Head(els).type = "bullets" -> LinksOfItem(Flatten(Head(els).items))
          [] OTHER -> <<>>) \o AllLinks(Tail(els))

\* the slide of the renderSlide call that has just returned
RenderedSlide == slides[event.slide + 1]

\* s can be had from t by leaving elements out
RECURSIVE IsSubsequence(_, _)
IsSubsequence(s, t) ==
  IF s = <<>> THEN TRUE
  ELSE IF t = <<>> THEN FALSE
  ELSE IF Head(s) = Head(t) THEN IsSubsequence(Tail(s), Tail(t))
  ELSE IsSubsequence(s, Tail(t))

\* C14: when renderSlide has returned, the link list holds every link
\* element of the slide, the top-level ones and every link inside a bullet
\* item (a second or later link of one item too), once each, in order
C14_EveryLinkRegistered ==
  event.kind = "rendered" =>
    LinkPairs(links) = AllLinks(RenderedSlide.elements)

\* C15: a renderSlide call not overlapped by another one rebuilds the link
\* state: when it has returned the link list holds links of its slide only,
\* in the slide's order, it is empty only if the slide has no link, and the
\* selected index is 0
C15_LinkStateRebuilt ==
  (event.kind = "rendered" /\ ~event.overlapped) =>
    /\ IsSubsequence(LinkPairs(links), AllLinks(RenderedSlide.elements))
    /\ (links = <<>>) <=> (AllLinks(RenderedSlide.elements) = <<>>)
    /\ selectedLinkIndex = 0

\* the third slide of a deck has been rendered after the second, whose
\* links are other ones, and no other renderSlide call ran meanwhile
C15_Witness ==
  /\ event.kind = "rendered" /\ ~event.overlapped
  /\ app = "running"
  /\ Len(slides) = 3 /\ event.slide = 2 /\ currentSlide = 2
  /\ AllLinks(slides[2].elements) # <<>>
  /\ links # <<>>
  /\ selectedLinkIndex = 0

\* C16: when renderSlide has returned for a slide with a link, the first
\* link is the selected one and the only one that carries the highlight;
\* for a slide without links nothing is highlighted
C16_FirstLinkHighlighted ==
  event.kind = "rendered" =>
    IF AllLinks(RenderedSlide.elements) # <<>>
    THEN selectedLinkIndex = 0 /\ Highlighted = {1}
    ELSE Highlighted = {}

\* C17: the left and right keys keep currentSlide within 0..N-1: right on
\* the last slide and left on the first change nothing and start no
\* renderSlide; any other left or right moves the index by one and starts
\* renderSlide for the slide at the new index
C17_SlideKeys ==
  /\ [](app \in {"starting", "running"} => currentSlide \in 0..(Len(slides) - 1))
  /\ [][(event'.kind = "key" /\ event'.name \in {"left", "right"})
        => LET right == event'.name = "right"
               atEdge == IF right THEN currentSlide = Len(slides) - 1
                         ELSE currentSlide = 0
           IN  IF atEdge
               THEN UNCHANGED <<currentSlide, links, selectedLinkIndex, renders, app>>
               ELSE /\ currentSlide' = IF right THEN currentSlide + 1
                                       ELSE currentSlide - 1
                    /\ Len(renders') = Len(renders) + 1
                    /\ renders'[Len(renders')].slide = currentSlide'
                    /\ renders'[Len(renders')].waitAt = 0]_vars

\* the right key was pressed on the last of three slides
C17_Witness ==
  /\ event.kind = "key" /\ event.name = "right" /\ event.rendering = -1
  /\ Len(slides) = 3 /\ currentSlide = 2
  /\ renders = <<>>

(***************************************************************************)
(* The Enter key and the tmux links.                                       *)
(***************************************************************************)

\* C18: Enter with a link selected activates the link whatever the scheme of
\* its URL: a tmux:// URL goes to executeTmuxLink and any other URL is
\* opened; Enter does nothing only when the slide has no links
C18_EnterActivatesAnyLink ==
  (event.kind = "key" /\ event.name = "enter") =>
    IF event.link = Null THEN links = <<>> /\ event.dispatched = "none"
    ELSE event.dispatched =
           IF startsWith(event.link.url, TmuxScheme) THEN "tmux" ELSE "open"

\* the executeTmuxLink calls in progress and the one of the last step
TmuxCalls ==
  {tmuxTasks[i] : i \in DOMAIN tmuxTasks}
  \cup (IF event.kind \in {"key", "tmux"}
        THEN (IF event.kind = "key" /\ event.name # "enter" THEN {}
              ELSE IF event.call = Null THEN {} ELSE {event.call.task})
        ELSE {})

\* the executeTmuxLink call that returned in the last step, if one did
Returned ==
  IF event.kind = "tmux" \/ (event.kind = "key" /\ event.name = "enter")
  THEN (IF event.call # Null /\ event.call.done THEN {event.call} ELSE {})
  ELSE {}

\* url is tmux://<pane>/<command> with this pane and this command
IsTmuxUrl(url, pane, command) ==
  /\ url = TmuxScheme \o pane \o <<"/">> \o command
  /\ pane # <<>> /\ command # <<>>
  /\ \A i \in DOMAIN pane : pane[i] # "/"

MatchesPattern(url) ==
  \E i \in 1..Len(url) : \E j \in 1..Len(url) :
    IsTmuxUrl(url, SubSeq(url, 8, i), SubSeq(url, j, Len(url)))

SendCount(log) == Cardinality({i \in DOMAIN log : log[i].cmd = "send-keys"})

\* C19: executeTmuxLink first checks that the pane exists, creates a window
\* named after the pane only if the check fails, and then sends the command
\* text followed by Enter to the pane once, after the check and the
\* creation have ended, also when the creation failed
C19_TmuxOrder ==
  /\ \A t \in TmuxCalls :
       t.log # <<>> =>
         /\ IsTmuxUrl(t.url, t.pane, t.command)
         /\ Len(t.log) <= 3
         /\ t.log[1].cmd = "list-panes"
         /\ \A i \in DOMAIN t.log :
              /\ t.log[i].target = t.pane
              /\ i < Len(t.log) => t.log[i].result # "pending"
              /\ t.log[i].cmd = "new-window" => i = 2 /\ t.log[1].result = "failed"
              /\ t.log[i].cmd = "send-keys" =>
                   /\ i = Len(t.log)
                   /\ t.log[i].keys = <<t.command, <<"E", "n", "t", "e", "r">> >>
                   /\ \/ i = 2 /\ t.log[1].result = "ok"
                      \/ i = 3 /\ t.log[2].cmd = "new-window"
              /\ i = 2 /\ t.log[1].result = "failed" => t.log[i].cmd = "new-window"
  /\ \A c \in Returned :
       MatchesPattern(c.task.url) =>
         /\ SendCount(c.task.log) = 1
         /\ c.task.log[Len(c.task.log)].result # "pending"

\* a call has returned after the check failed, the creation failed and the
\* command was sent
C19_Witness ==
  \E c \in Returned :
    /\ Len(c.task.log) = 3
    /\ c.task.log[1].result = "failed"
    /\ c.task.log[2].cmd = "new-window" /\ c.task.log[2].result = "failed"
    /\ c.task.log[3].cmd = "send-keys" /\ c.task.log[3].result = "ok"
    /\ c.task.command = <<"c", " ", "d">>

\* C20: no error leaves executeTmuxLink: a call sends at most once, a send
\* that fails is logged and not tried again, a URL that does not match
\* tmux://<pane>/<command> sends nothing, and the key handler goes on
C20_TmuxErrorsContained ==
  /\ app # "crashed"
  /\ app = "running" => ENABLED KeyLink
  /\ \A t \in TmuxCalls : SendCount(t.log) <= 1
  /\ \A c \in Returned :
       /\ ~c.escaped
       /\ ~MatchesPattern(c.task.url) =>
            c.task.log = <<>> /\ c.logged = "Invalid tmux URL"
       /\ MatchesPattern(c.task.url) =>
            LET last == c.task.log[Len(c.task.log)]
            IN  /\ last.cmd = "send-keys"
                /\ last.result = "failed" => c.logged = "Failed to execute tmux link"

\* a call has returned after its send failed
C20_Witness ==
  \E c \in Returned :
    /\ c.task.log # <<>>
    /\ c.task.log[Len(c.task.log)].cmd = "send-keys"
    /\ c.task.log[Len(c.task.log)].result = "failed"
    /\ c.logged = "Failed to execute tmux link"
    /\ app = "running"

(***************************************************************************)
(* Startup without slides.                                                 *)
(***************************************************************************)

\* the document has no line other than blank lines and separator lines
HasNoSlideContent(text) ==
  \A i \in DOMAIN LinesOf(text) :
    IsBlankLine(LinesOf(text)[i]) \/ trim(LinesOf(text)[i]) = SeparatorLine

\* main has ended with exit(1) before it created the renderer: no renderSlide
\* call was started, no key handler is installed and no step is left
FatalStartup ==
  /\ app = "exited"
  /\ event = [kind |-> "exit", code |-> 1]
  /\ renders = <<>> /\ links = <<>> /\ tmuxTasks = <<>>
  /\ ~ENABLED NextShow

\* C21: a document that yields no slides (empty text, blank lines only,
\* separators only) makes startup fatal: main reports the error and exits
\* with status 1 before a renderer is created, a slide is rendered or a key
\* handler is installed
C21_NoSlidesFatal ==
  app # "load" =>
    /\ slides = <<>> => FatalStartup
    /\ HasNoSlideContent(markdown) => slides = <<>> /\ FatalStartup

(***************************************************************************)
(* The title of a slide: the centering computation of the test suite       *)
(* (src/src/renderer.test.ts) and the title box of renderSlide.            *)
(***************************************************************************)

\* bound: the lines of a rendered title
MaxTitleLines == 2

\* left column of the title box
TitleLeft == 5

\* Math.floor(a / 2)
floorHalf(a) == a \div 2

center_multiline_text(lines, screen_width) ==
  [i \in DOMAIN lines |-> floorHalf(screen_width - Len(lines[i]))]

\* the title box of renderSlide: one box at a fixed left column holds every
\* line of the rendered title
drawTitle(input) ==
  [state |-> "drawn",
   lines |-> input.lines,
   screen_width |-> input.screen_width,
   align |-> input.align,
   left |-> TitleLeft,
   columns |-> [i \in DOMAIN input.lines |-> TitleLeft]]

\* a line of n cells
Cells(n) == [i \in 1..n |-> "A"]

TitleLines == {Cells(0), Cells(5), Cells(8), Cells(11), Cells(26), Cells(100)}

TitleInputs ==
  [state : {"input"},
   lines : UNION {[1..k -> TitleLines] : k \in 0..MaxTitleLines},
   screen_width : {80, 81},
   align : {"left", "center"}]

InitTitle ==
  /\ titleBox \in TitleInputs
  /\ NoParser /\ NoApp
  /\ NoRendering /\ NoAdjuster /\ NoShell

DrawTitle ==
  /\ titleBox.state = "input"
  /\ titleBox' = drawTitle(titleBox)
  /\ UNCHANGED <<parserVars, appVars, rendering, adjuster, shell>>

NextTitle == DrawTitle

SpecTitle == InitTitle /\ [][NextTitle]_vars

\* C22: centering puts each title line on its own at left column
\* floor((W - L) / 2) for its length L and the canvas width W (L = 5, W = 80
\* gives 37; equal lengths give equal columns; L = 100, W = 80 gives -10), and
\* the title lines of a slide aligned `center` are drawn at those columns
C22_TitleCentered ==
  titleBox.state = "drawn" =>
    LET lines == titleBox.lines
        w == titleBox.screen_width
        at == center_multiline_text(lines, w)
    IN  /\ \A i \in DOMAIN lines :
             /\ 2 * at[i] <= w - Len(lines[i])
             /\ w - Len(lines[i]) < 2 * at[i] + 2
             /\ (Len(lines[i]) = 5 /\ w = 80) => at[i] = 37
             /\ (Len(lines[i]) = 100 /\ w = 80) => at[i] = -10
             /\ \A j \in DOMAIN lines : Len(lines[i]) = Len(lines[j]) => at[i] = at[j]
        /\ titleBox.align = "center" => titleBox.columns = at

(***************************************************************************)
(* Font (src/src/parser.ts, the font library): a font is its metadata, the *)
(* rows with chars, top, bottom and offsets (0-based, as in the JSON file), *)
(* and font_lines, the lines of the glyph sheet.                           *)
(***************************************************************************)

\* bound: the characters of a rendered text
MaxTextLen == 2

\* s.slice(start, end) of a string, with 0-based indices; a negative index
\* counts from the end
sliceIndex(n, i) == IF i < 0 THEN (IF n + i < 0 THEN 0 ELSE n + i)
                    ELSE IF i > n THEN n ELSE i

slice(s, start, end) ==
  LET from == sliceIndex(Len(s), start)
      to == sliceIndex(Len(s), end)
  IN  IF from < to THEN SubSeq(s, from + 1, to) ELSE <<>>

\* this.font_lines[row] || ""
fontLine(font, row) ==
  IF row >= 0 /\ row < Len(font.font_lines) THEN font.font_lines[row + 1] ELSE <<>>

\* the getter height
height(font) ==
  IF Len(font.rows) = 0 THEN 0
  ELSE font.rows[1].bottom - font.rows[1].top + 1

\* the places (row, index) of a character in the metadata
Places(font, char) ==
  UNION {{<<r, i>> : i \in {j \in 0..(Len(font.rows[r].chars) - 1) :
                              font.rows[r].chars[j + 1] = char}} :
         r \in DOMAIN font.rows}

\* get_char: the entry of the character cache, which the constructor fills
\* row by row, so that the last place of a character is the one kept
get_char(font, char) ==
  IF Places(font, char) = {} THEN [type |-> "null"]
  ELSE LET p == CHOOSE p \in Places(font, char) :
                  \A q \in Places(font, char) :
                    q[1] < p[1] \/ (q[1] = p[1] /\ q[2] <= p[2])
           row == font.rows[p[1]]
       IN  [char |-> char, top |-> row.top, bottom |-> row.bottom,
            left |-> row.offsets[p[2] + 1],
            right |-> row.offsets[p[2] + 2] - 1]

\* new Array(n).fill("")
emptyLines(n) == [i \in 1..n |-> <<>>]

\* the loop of render_char over the lines of the character's row
RECURSIVE charLines(_, _, _)
charLines(font, meta, row) ==
  IF row <= meta.bottom /\ row < Len(font.font_lines)
  THEN <<slice(fontLine(font, row), meta.left, meta.right + 1)>>
         \o charLines(font, meta, row + 1)
  ELSE <<>>

render_char(font, char) ==
  LET meta == get_char(font, char)
  IN  IF meta = [type |-> "null"] THEN emptyLines(height(font))
      ELSE charLines(font, meta, meta.top)

\* " ".repeat(spacing)
spaces(spacing) == [i \in 1..spacing |-> " "]

\* char_lines[line_idx] || ""
charLine(char_lines, line_idx) ==
  IF line_idx < Len(char_lines) THEN char_lines[line_idx + 1] ELSE <<>>

\* the loop of render over the characters of the text, from character i on
RECURSIVE renderFrom_spacerAfterLast(_, _, _, _, _)
renderFrom_spacerAfterLast(font, text, spacing, i, result) ==
  IF i >= Len(text) THEN result
  ELSE LET char_lines == render_char(font, text[i + 1])
       IN  renderFrom_spacerAfterLast(font, text, spacing, i + 1,
             [line_idx \in DOMAIN result |->
                result[line_idx] \o charLine(char_lines, line_idx - 1)
                  \o spaces(spacing)])

RECURSIVE renderFrom(_, _, _, _, _)
renderFrom(font, text, spacing, i, result) ==
  IF i >= Len(text) THEN result
  ELSE LET char_lines == render_char(font, text[i + 1])
       IN  renderFrom(font, text, spacing, i + 1,
             [line_idx \in DOMAIN result |->
                result[line_idx] \o charLine(char_lines, line_idx - 1)
                  \o (IF i < Len(text) - 1 THEN spaces(spacing) ELSE <<>>)])

render(font, text, spacing) ==
  IF text = <<>> THEN emptyLines(height(font))
  ELSE renderFrom(font, text, spacing, 0, emptyLines(height(font)))

\* a glyph sheet of four lines and a font of two rows of two lines: X is
\* two columns wide and Y three, Z has the columns 1 to 3 of the second row
SheetLines ==
  << <<"a", "b", "c", "d", "e">>,
     <<"f", "g", "h", "i", "j">>,
     <<"k", "l", "m", "n", "o">>,
     <<"p", "q", "r", "s", "t">> >>

SheetRows ==
  << [chars |-> <<"X", "Y">>, top |-> 0, bottom |-> 1, offsets |-> <<0, 2, 5>>],
     [chars |-> <<"Z">>, top |-> 2, bottom |-> 3, offsets |-> <<1, 4>>] >>

SheetFont == [rows |-> SheetRows, font_lines |-> SheetLines]

\* the same font with a sheet line that ends before its row's last offset,
\* with a second row taller than the first, and with a sheet that ends
\* inside the second row
RaggedFont == [SheetFont EXCEPT !.font_lines[2] = <<"f", "g", "h">>]
TallRowFont == [SheetFont EXCEPT !.rows[2].top = 1]
ShortSheetFont == [SheetFont EXCEPT !.font_lines = SubSeq(SheetLines, 1, 3)]

FontInputs == {SheetFont, RaggedFont, TallRowFont, ShortSheetFont}

TextInputs == UNION {[1..k -> {"X", "Y", "Z", "?"}] : k \in 0..MaxTextLen}

InitFont ==
  /\ rendering \in [state : {"input"}, font : FontInputs, text : TextInputs]
  /\ NoParser /\ NoApp
  /\ NoTitle /\ NoAdjuster /\ NoShell

\* font.render(text), with the default spacing
Render ==
  /\ rendering.state = "input"
  /\ rendering' = [state |-> "done", font |-> rendering.font,
                   text |-> rendering.text,
                   lines |-> render(rendering.font, rendering.text, 1)]
  /\ UNCHANGED <<parserVars, appVars, titleBox, adjuster, shell>>

NextFont == Render

SpecFont == InitFont /\ [][NextFont]_vars

\* the rows of the font have the height of the font, and every sheet line of
\* a row is there and reaches the row's last offset
WellFormed(font) ==
  \A r \in DOMAIN font.rows :
    LET row == font.rows[r]
    IN  /\ row.bottom - row.top + 1 = height(font)
        /\ row.top >= 0 /\ row.bottom < Len(font.font_lines)
        /\ \A l \in row.top..row.bottom :
             Len(font.font_lines[l + 1]) >= row.offsets[Len(row.offsets)]

\* the cell of the sheet at a line and a column, both 0-based
Cell(font, line, column) ==
  IF line >= 0 /\ line < Len(font.font_lines)
  THEN (IF column >= 0 /\ column < Len(font.font_lines[line + 1])
        THEN font.font_lines[line + 1][column + 1] ELSE "no cell")
  ELSE "no cell"

IsKnown(font, char) == Places(font, char) # {}

\* the place of a character of the font, and the number of its columns
PlaceOf(font, char) == CHOOSE p \in Places(font, char) : TRUE

WidthOf(font, char) ==
  IF IsKnown(font, char)
  THEN LET p == PlaceOf(font, char)
       IN  font.rows[p[1]].offsets[p[2] + 2] - font.rows[p[1]].offsets[p[2] + 1]
  ELSE 0

\* the column of an output line before which character n of the text starts
RECURSIVE StartOf(_, _, _)
StartOf(font, text, n) ==
  IF n = 1 THEN 0
  ELSE StartOf(font, text, n - 1) + WidthOf(font, text[n - 1]) + 1

\* output line k (from 1) is made of the glyphs of the text in order: each
\* character of the font gives the columns [offsets[i], offsets[i+1]) of line
\* k of its row, a character not in the font gives no column, and one blank
\* column stands between two characters and none after the last
IsRenderedLine(font, text, k, line) ==
  /\ Len(line) = IF text = <<>> THEN 0
                 ELSE StartOf(font, text, Len(text)) + WidthOf(font, text[Len(text)])
  /\ \A n \in DOMAIN text :
       /\ n < Len(text) =>
            line[StartOf(font, text, n) + WidthOf(font, text[n]) + 1] = " "
       /\ IsKnown(font, text[n]) =>
            LET p == PlaceOf(font, text[n])
                row == font.rows[p[1]]
            IN  /\ row.bottom - row.top + 1 = height(font)
                /\ \A j \in 1..WidthOf(font, text[n]) :
                     line[StartOf(font, text, n) + j] =
                       Cell(font, row.top + k - 1, row.offsets[p[2] + 1] + j - 1)

IsRendered(font, text, lines) ==
  /\ Len(lines) = height(font)
  /\ \A k \in DOMAIN lines : IsRenderedLine(font, text, k, lines[k])

RECURSIVE SlideLinks(_, _)
SlideLinks(els, ls) ==
  IF els = <<>> THEN ls
  ELSE SlideLinks(Tail(els), elementLinks(Head(els), ls))

\* C24: key events handled while a renderSlide call is suspended do not
\* corrupt the display state: once every renderSlide call that was started
\* has returned, the link list holds exactly the links of
\* slides[currentSlide], whose boxes are the link regions drawn
C24_DisplayOfCurrentSlide ==
  (app = "running" /\ renders = <<>>) =>
    LinkPairs(links) = LinkPairs(SlideLinks(slides[currentSlide + 1].elements, <<>>))

\* the selected index is within the link list and the link at it is the
\* only highlighted one; with no link the index is 0
SelectionInRange ==
  IF links # <<>>
  THEN /\ selectedLinkIndex \in 0..(Len(links) - 1)
       /\ Highlighted = {selectedLinkIndex + 1}
  ELSE selectedLinkIndex = 0

\* C25: after a completed renderSlide followed by any sequence of
\* navigateLinks calls, a non-empty link list of N links has
\* 0 <= selectedLinkIndex < N and exactly one highlighted link box, the one
\* at selectedLinkIndex; with an empty list selectedLinkIndex is 0. It holds
\* whenever no renderSlide call is in progress and after every
\* navigateLinks call
C25_SelectionInRange ==
  /\ (app = "running" /\ renders = <<>>) => SelectionInRange
  /\ (event.kind = "key" /\ event.name \in {"up", "down"}) => SelectionInRange

\* up was pressed on a completely rendered slide of three links with the
\* first one selected: the last one is the selected and highlighted one
C25_Witness ==
  /\ event.kind = "key" /\ event.name = "up"
  /\ renders = <<>>
  /\ Len(links) = 3
  /\ selectedLinkIndex = 2
  /\ Highlighted = {3}

\* the fragments written back one after the other
RECURSIVE Rejoin(_)
Rejoin(fs) == IF fs = <<>> THEN <<>> ELSE Unparse(Head(fs)) \o Rejoin(Tail(fs))

\* the content of a text fragment, the text and the URL of a link
FragmentParts(f) == IF f.type = "link" THEN {f.text, f.url} ELSE {f.content}

\* C26: the fragments parseLine returns, written back in order (a text
\* fragment as its content, a bold one as its content between two pairs of
\* asterisks, a link as [text](url)), give back exactly the line; for a
\* non-empty line no fragment has an empty content, link text or URL
C26_FragmentsRoundTrip ==
  pc = "done" =>
    /\ Rejoin(elements) = content
    /\ content # <<>> => \A k \in DOMAIN elements : <<>> \notin FragmentParts(elements[k])

\* a line of a bold span, a link, a lone pair of asterisks and text was read
C26_Witness ==
  /\ pc = "done"
  /\ content = <<"*", "*", "b", "*", "*", "[", "c", "]", "(", "d", ")", "*", "*", "a">>
  /\ elements = << Bold(<<"b">>), Link(<<"c">>, <<"d">>), Text(<<"*", "*", "a">>) >>

(***************************************************************************)
(* The font adjuster of scripts/font_adjust.ts: main walks over the        *)
(* characters of the rows of a font's metadata and hands each one to       *)
(* adjustCharacter, which changes the row on the keys it reads until a key *)
(* asks for the next or the previous character.  Indices are 0-based as in *)
(* the source.                                                             *)
(***************************************************************************)
MaxAdjustments == 3

Row(chars, top, bottom, offsets) ==
  [chars |-> chars, top |-> top, bottom |-> bottom, offsets |-> offsets]

\* row.offsets[i]
offsetAt(row, i) == row.offsets[i + 1]

\* the width visualizeCharacter computes from left and right
width(row, charIndex) ==
  LET left == offsetAt(row, charIndex)
      right == offsetAt(row, charIndex + 1) - 1
  IN  right - left + 1

AdjustKeys == {"up", "shift-up", "down", "shift-down", "l", "r", "w", "n"}

\* what adjustCharacter does to its row on a key that is not a navigation key
adjustCharacter(row, charIndex, key) ==
  CASE key = "up" -> [row EXCEPT !.top = row.top - 1]
    [] key = "shift-up" ->
         IF row.top < row.bottom THEN [row EXCEPT !.top = row.top + 1] ELSE row
    [] key = "down" -> [row EXCEPT !.bottom = row.bottom + 1]
    [] key = "shift-down" ->
         IF row.bottom > row.top THEN [row EXCEPT !.bottom = row.bottom - 1] ELSE row
    [] key = "l" ->
         [row EXCEPT !.offsets[charIndex + 1] = offsetAt(row, charIndex) - 1]
    [] key = "r" ->
         IF offsetAt(row, charIndex) < offsetAt(row, charIndex + 1) - 1
         THEN [row EXCEPT !.offsets[charIndex + 1] = offsetAt(row, charIndex) + 1]
         ELSE row
    [] key = "w" ->
         [row EXCEPT !.offsets[charIndex + 2] = offsetAt(row, charIndex + 1) + 1]
    [] key = "n" ->
         IF offsetAt(row, charIndex + 1) > offsetAt(row, charIndex) + 1
         THEN [row EXCEPT !.offsets[charIndex + 2] = offsetAt(row, charIndex + 1) - 1]
         ELSE row
    [] OTHER -> row

\* the indices after the action adjustCharacter returned
step(rows, currentRowIndex, currentCharIndex, action) ==
  IF action = "next" THEN <<currentRowIndex, currentCharIndex + 1>>
  ELSE IF currentCharIndex - 1 >= 0 THEN <<currentRowIndex, currentCharIndex - 1>>
  ELSE IF currentRowIndex - 1 >= 0
       THEN <<currentRowIndex - 1, Len(rows[currentRowIndex].chars) - 1>>
  ELSE <<0, 0>>

\* adjustCharacter called for a position: it reads row.chars[charIndex] and
\* waits for a key, or throws on the character that is not there
called(rows, currentRowIndex, currentCharIndex, row) ==
  [state |-> IF currentCharIndex < Len(rows[currentRowIndex + 1].chars)
             THEN "key" ELSE "thrown",
   currentRowIndex |-> currentRowIndex,
   currentCharIndex |-> currentCharIndex,
   row |-> row]

\* the two loops of main from the test of the inner one (inner) or of the
\* outer one, up to the next call of adjustCharacter or to the end; row is
\* the index of the row the outer loop holds
RECURSIVE mainLoop(_, _, _, _, _)
mainLoop(rows, currentRowIndex, currentCharIndex, row, inner) ==
  IF inner
  THEN IF currentCharIndex >= 0 /\ currentCharIndex < Len(rows[row + 1].chars)
       THEN called(rows, currentRowIndex, currentCharIndex, row)
       ELSE mainLoop(rows, currentRowIndex + 1, 0, row, FALSE)
  ELSE IF currentRowIndex < Len(rows)
       THEN mainLoop(rows, currentRowIndex, currentCharIndex, currentRowIndex, TRUE)
       ELSE [state |-> "done", currentRowIndex |-> currentRowIndex,
             currentCharIndex |-> currentCharIndex, row |-> row]

\* font metadata the adjuster is started on: rows of strictly increasing
\* offsets with top <= bottom
AdjusterFonts ==
  { << Row(<<"A", "B">>, 0, 1, <<0, 1, 3>>), Row(<<"C">>, 2, 2, <<0, 2>>) >>,
    << Row(<<"A">>, 0, 0, <<0, 1>>), Row(<<"B", "C">>, 1, 2, <<0, 2, 3>>) >>,
    << Row(<<"A", "B">>, 0, 1, <<0, 2, 4>>), Row(<<"C", "D">>, 2, 3, <<1, 2, 4>>) >>,
    << >> }

\* main up to the first call of adjustCharacter, from the position of the
\* start character (the first character when none is given or found)
InitAdjust ==
  /\ \E rows \in AdjusterFonts :
       \E ri \in 0..Len(rows) :
         \E ci \in 0..1 :
           /\ \/ ri = 0 /\ ci = 0
              \/ ri < Len(rows) /\ ci < Len(rows[ri + 1].chars)
           /\ adjuster = mainLoop(rows, ri, ci, ri, FALSE)
                           @@ [rows |-> rows, adjustments |-> 0,
                               last |-> [key |-> "none"]]
  /\ NoParser /\ NoApp /\ NoTitle /\ NoRendering /\ NoShell

\* adjustCharacter reads a key that changes its row
AdjustKey ==
  \E key \in AdjustKeys :
    /\ adjuster.state = "key"
    /\ adjuster.adjustments < MaxAdjustments
    /\ LET ri == adjuster.currentRowIndex
           ci == adjuster.currentCharIndex
       IN  adjuster' =
             [adjuster EXCEPT
                !.rows[ri + 1] = adjustCharacter(adjuster.rows[ri + 1], ci, key),
                !.adjustments = adjuster.adjustments + 1,
                !.last = [key |-> key, row |-> ri, char |-> ci]]
    /\ UNCHANGED <<parserVars, appVars, titleBox, rendering, shell>>

\* adjustCharacter reads a navigation key and returns; main saves the
\* metadata and goes on to the next call of adjustCharacter or to its end
NavigateKey ==
  \E action \in {"next", "prev"} :
    /\ adjuster.state = "key"
    /\ LET ri == adjuster.currentRowIndex
           ci == adjuster.currentCharIndex
           to == step(adjuster.rows, ri, ci, action)
       IN  adjuster' =
             mainLoop(adjuster.rows, to[1], to[2], adjuster.row, TRUE)
               @@ [rows |-> adjuster.rows, adjustments |-> adjuster.adjustments,
                   last |-> [key |-> action, row |-> ri, char |-> ci]]
    /\ UNCHANGED <<parserVars, appVars, titleBox, rendering, shell>>

NextAdjust == AdjustKey \/ NavigateKey

SpecAdjust == InitAdjust /\ [][NextAdjust]_vars

\* the position handed to adjustCharacter by the call in progress
Handed == <<adjuster.currentRowIndex, adjuster.currentCharIndex>>

\* row index r and character index c name a character of the metadata
IsCharacter(r, c) ==
  /\ r \in 0..(Len(adjuster.rows) - 1)
  /\ c \in 0..(Len(adjuster.rows[r + 1].chars) - 1)

\* the last key was the navigation key `action`, read at row r, character c
Navigated(action, r, c) ==
  /\ adjuster.last.key = action
  /\ adjuster.last.row = r /\ adjuster.last.char = c

LastCharOf(r) == Len(adjuster.rows[r + 1].chars) - 1

\* C27: the main loop of the font adjuster hands adjustCharacter only
\* positions of existing characters; "previous" at the first character of a
\* row r > 0 continues at the last character of row r - 1, "previous" at the
\* first character of row 0 stays there, and "next" at the last character of
\* a row continues at the first character of the following row
C27_AdjusterPositions ==
  /\ adjuster.state \in {"key", "thrown"} => IsCharacter(Handed[1], Handed[2])
  /\ \A r \in 0..(Len(adjuster.rows) - 1) :
       /\ (r > 0 /\ Navigated("prev", r, 0)) =>
            adjuster.state = "key" /\ Handed = <<r - 1, LastCharOf(r - 1)>>
       /\ (r = 0 /\ Navigated("prev", r, 0)) =>
            adjuster.state = "key" /\ Handed = <<0, 0>>
       /\ (r < Len(adjuster.rows) - 1 /\ Navigated("next", r, LastCharOf(r))) =>
            adjuster.state = "key" /\ Handed = <<r + 1, 0>>

\* C28: started on rows of strictly increasing offsets with top <= bottom,
\* any sequence of adjustment keys keeps every character of every row at
\* least one column wide and top <= bottom
C28_RowsStayValid ==
  adjuster.state # "none" =>
    \A i \in DOMAIN adjuster.rows :
      LET row == adjuster.rows[i]
      IN  /\ \A c \in 0..(Len(row.chars) - 1) : width(row, c) >= 1
          /\ row.top <= row.bottom

(***************************************************************************)
(* PersistentShell of demos/shell-parallel.ts: exec pushes a task on the   *)
(* queue and calls processQueue, which runs one task at a time.  A command *)
(* is known by its number in the order of the exec calls; it ends well or  *)
(* fails (the promisified child_process.exec rejects).                     *)
(***************************************************************************)
MaxCommands == 4

\* new PersistentShell()
NewShell ==
  [state |-> "ready",
   submitted |-> <<>>,     \* how the command of each exec call will end
   queue |-> <<>>,
   isExecuting |-> FALSE,
   running |-> {},         \* commands whose child process runs
   started |-> <<>>,       \* commands in the order their task was started
   resolved |-> {},        \* commands whose exec promise has settled
   resuming |-> 0,         \* processQueue calls past their await task()
   busy |-> 0]             \* exec calls that found a task executing

\* a shell that starts the next task whether or not one is executing
processQueue_noGuard(sh) ==
  IF sh.queue = <<>> THEN sh
  ELSE [sh EXCEPT !.isExecuting = TRUE,
                  !.queue = Tail(sh.queue),
                  !.running = sh.running \cup {Head(sh.queue)},
                  !.started = Append(sh.started, Head(sh.queue))]

\* processQueue up to its await: the task taken from the queue is started,
\* which starts the child process of its command
processQueue(sh) ==
  IF sh.isExecuting \/ Len(sh.queue) = 0 THEN sh
  ELSE [sh EXCEPT !.isExecuting = TRUE,
                  !.queue = Tail(sh.queue),
                  !.running = sh.running \cup {Head(sh.queue)},
                  !.started = Append(sh.started, Head(sh.queue))]

\* exec(command): the task is pushed and processQueue called
PersistentShell_exec(sh, ending) ==
  LET id == Len(sh.submitted) + 1
  IN  processQueue([sh EXCEPT !.submitted = Append(sh.submitted, ending),
                              !.queue = Append(sh.queue, id),
                              !.busy = sh.busy + (IF sh.isExecuting THEN 1 ELSE 0)])

\* the child process of command id has ended: the task resolves the exec
\* promise and returns, or it throws and so does the processQueue call that
\* awaits it
taskEnds(sh, id) ==
  IF sh.submitted[id] = "ok"
  THEN [sh EXCEPT !.running = sh.running \ {id},
                  !.resolved = sh.resolved \cup {id},
                  !.resuming = sh.resuming + 1]
  ELSE [sh EXCEPT !.running = sh.running \ {id}]

\* processQueue after its await task()
queueResumes(sh) ==
  processQueue([sh EXCEPT !.isExecuting = FALSE, !.resuming = sh.resuming - 1])

InitShell ==
  /\ shell = NewShell
  /\ NoParser /\ NoApp /\ NoTitle /\ NoRendering /\ NoAdjuster

Exec ==
  \E ending \in {"ok", "fails"} :
    /\ shell.state = "ready"
    /\ Len(shell.submitted) < MaxCommands
    /\ shell' = PersistentShell_exec(shell, ending)
    /\ UNCHANGED <<parserVars, appVars, titleBox, rendering, adjuster>>

CommandEnds ==
  \E id \in shell.running :
    /\ shell.state = "ready"
    /\ shell' = taskEnds(shell, id)
    /\ UNCHANGED <<parserVars, appVars, titleBox, rendering, adjuster>>

QueueResumes ==
  /\ shell.state = "ready"
  /\ shell.resuming > 0
  /\ shell' = queueResumes(shell)
  /\ UNCHANGED <<parserVars, appVars, titleBox, rendering, adjuster>>

NextShell == Exec \/ CommandEnds \/ QueueResumes

SpecShell == InitShell /\ [][NextShell]_vars

Submitted == 1..Len(shell.submitted)

\* no child process runs and no processQueue call is about to go on
Settled == shell.state = "ready" /\ ~ENABLED (CommandEnds \/ QueueResumes)

\* C29: every command submitted to exec is executed and its promise
\* settles, for any number and interleaving of exec calls, commands queued
\* behind a failing command included: when nothing more can happen without
\* another exec call, every submitted command has been started and its
\* promise has settled
C29_EveryCommandSettles ==
  Settled =>
    \A id \in Submitted :
      /\ \E k \in DOMAIN shell.started : shell.started[k] = id
      /\ id \in shell.resolved

\* C30: the shell runs the queued commands strictly one after the other:
\* never two child processes at once, and the tasks start in the order of
\* the exec calls, also when exec is called several times while a command
\* runs
C30_OneAtATimeInOrder ==
  shell.state = "ready" =>
    /\ Cardinality(shell.running) <= 1
    /\ shell.running # {} => shell.isExecuting
    /\ Len(shell.started) <= Len(shell.submitted)
    /\ \A k \in DOMAIN shell.started : shell.started[k] = k
    /\ \A k \in DOMAIN shell.queue : shell.queue[k] = Len(shell.started) + k

\* exec was called twice while the first command ran; the third command
\* runs now, after the first two
C30_Witness ==
  /\ shell.state = "ready"
  /\ Len(shell.submitted) = 3
  /\ shell.busy = 2
  /\ shell.started = <<1, 2, 3>>
  /\ shell.running = {3}
  /\ shell.resolved = {1, 2}

====
